---- MODULE Spec2Model ----
(***************************************************************************)
(* Model of nocmodel/noc_codegen_base.py: class noc_codegen_base, the code *)
(* model of a hardware module (generics, ports, external signals, the      *)
(* implementation text and the interface hash) and its management methods. *)
(*                                                                         *)
(* Encoding of Python values:                                              *)
(*  - a dictionary is a function from its keys (strings) to its values;    *)
(*  - a list is a sequence;                                                *)
(*  - the strings that model_hash formats, sorts and concatenates ("name"  *)
(*    and "type") are sequences of character codes (<<97, 98>> is "ab");   *)
(*  - the strings that are only stored and compared ("class", "direction", *)
(*    "description", the implementation text) are TLA+ strings;            *)
(*  - an argument whose Python type the code tests with isinstance() is a  *)
(*    record carrying that type in its field pytype.                       *)
(***************************************************************************)
EXTENDS Integers, Sequences, FiniteSets, TLC

VARIABLES generics, ports, external_signals, implementation, interface_hash,
          exc, warned, ncalls

vars == <<generics, ports, external_signals, implementation, interface_hash,
          exc, warned, ncalls>>

(* The noc_codegen_base objects of a run. *)
Objs == {1, 2}

(* ---------------------------------------------------------------------- *)
(* Bounds                                                                  *)
(* ---------------------------------------------------------------------- *)

(* Number of method calls in a run of Spec. *)
MaxCalls == 2

(* Number of method calls (over both objects) in a run of SpecPair. *)
MaxPairCalls == 4

(* Number of method calls in a run of SpecHash. *)
MaxHashCalls == 4

(* ---------------------------------------------------------------------- *)
(* Python values                                                           *)
(* ---------------------------------------------------------------------- *)

(* A str argument with the given characters. *)
PyStr(chars) == [pytype |-> "str", chars |-> chars]

(* A non-str argument (an int), with the characters of its repr(). *)
PyIntName(chars) == [pytype |-> "int", chars |-> chars]

(* A value of the given Python type, told apart by its repr(). *)
PyVal(pytype, repr) == [pytype |-> pytype, repr |-> repr]

(* A myhdl Signal, which holds its initial value in _init. *)
PySignal(repr, init) == [pytype |-> "SignalType", repr |-> repr, init |-> init]

(* Mutant of isinstance_str: the type of name is not checked. *)
isinstance_any(x) == TRUE

(* isinstance(x, str) *)
isinstance_str(x) == x.pytype = "str"

(* dict.update(kw): the keys of kw are added or overwritten. *)
Update(d, kw) ==
    [k \in (DOMAIN d) \cup (DOMAIN kw) |-> IF k \in DOMAIN kw THEN kw[k] ELSE d[k]]

(* A call without optional keyword arguments. *)
NoKwargs == [k \in {} |-> ""]

(* signal_desc = None *)
None == [pytype |-> "NoneType"]

(* ---------------------------------------------------------------------- *)
(* Helper structures                                                       *)
(* ---------------------------------------------------------------------- *)

empty_generic ==
    [class |-> "generic", name |-> <<>>, type |-> <<>>,
     type_array |-> <<"None", "None">>,
     default_value |-> PyVal("str", "''"),
     current_value |-> PyVal("str", "''"),
     description |-> ""]

empty_port ==
    [class |-> "port", name |-> <<>>, type |-> <<>>,
     nocport |-> "None", signal_list |-> <<>>, description |-> ""]

empty_signal ==
    [class |-> "signal", name |-> <<>>, type |-> <<>>,
     type_array |-> <<"None", "None">>,
     direction |-> "",
     default_value |-> PyVal("str", "''"),
     related_generics |-> <<>>,
     description |-> ""]

get_new_generic(name) == Update(empty_generic, [name |-> name])

get_new_port(name) == Update(empty_port, [name |-> name])

get_new_signal(name) == Update(empty_signal, [name |-> name])

(* Mutant of filter_name: the existing entry is never found. *)
filter_none(list, name) == {}

(* filter(lambda x: x["name"] == name, list): the matching entries, here   *)
(* as their positions in the list, in list order.                          *)
filter_name(list, name) ==
    {i \in 1..Len(list) : list[i]["name"] = name}

(* filter(...)[0]: the first match. *)
First(S) == CHOOSE i \in S : \A j \in S : i <= j

(* ---------------------------------------------------------------------- *)
(* Outcome of a call                                                       *)
(* ---------------------------------------------------------------------- *)

(* The call raises exception e before it changed anything. *)
Raise(e) ==
    /\ exc' = e
    /\ warned' = ""
    /\ ncalls' = ncalls + 1
    /\ UNCHANGED <<generics, ports, external_signals, implementation,
                   interface_hash>>

(* The call returns normally. *)
Return ==
    /\ exc' = "None"
    /\ ncalls' = ncalls + 1

(* ---------------------------------------------------------------------- *)
(* add_generic                                                             *)
(* ---------------------------------------------------------------------- *)

(* Mutant of add_generic_result: an existing generic keeps its             *)
(* default_value and description.                                          *)
add_generic_keep(list, name, value, description, kwargs) ==
    LET g    == filter_name(list, name.chars)
        l1   == IF g = {} THEN Append(list, get_new_generic(name.chars)) ELSE list
        i    == IF g = {} THEN Len(l1) ELSE First(g)
        g1   == IF g = {}
                THEN Update(l1[i], [default_value |-> value, description |-> description])
                ELSE l1[i]
        g2   == Update(g1, kwargs)
    IN  [l1 EXCEPT ![i] = g2]

add_generic_result(list, name, value, description, kwargs) ==
    LET g    == filter_name(list, name.chars)
        l1   == IF g = {} THEN Append(list, get_new_generic(name.chars)) ELSE list
        i    == IF g = {} THEN Len(l1) ELSE First(g)
        g1   == Update(l1[i], [default_value |-> value, description |-> description])
        g2   == Update(g1, kwargs)
    IN  [l1 EXCEPT ![i] = g2]

add_generic(self, name, value, description, kwargs) ==
    IF ~isinstance_str(name)
    THEN Raise("TypeError")
    ELSE IF value.pytype \notin {"bool", "int", "intbv", "str"}
    THEN Raise("TypeError")
    ELSE /\ Return
         /\ warned' = ""
         /\ UNCHANGED <<ports, external_signals, implementation, interface_hash>>
         /\ generics' = [generics EXCEPT ![self] =
                 add_generic_result(@, name, value, description, kwargs)]

(* ---------------------------------------------------------------------- *)
(* add_port                                                                *)
(* ---------------------------------------------------------------------- *)

(* The check of signal_desc: a dictionary with at least "class" and        *)
(* "name", of class "signal".                                              *)
signal_desc_ok(signal_desc) ==
    \/ signal_desc = None
    \/ /\ {"class", "name"} \subseteq DOMAIN signal_desc
       /\ signal_desc["class"] = "signal"

(* Mutant of signal_list_update: signal_desc is always appended. *)
signal_list_append(signal_list, signal_desc) ==
    IF signal_desc = None THEN signal_list ELSE Append(signal_list, signal_desc)

(* The port's signal_list after the update with signal_desc. *)
signal_list_update(signal_list, signal_desc) ==
    IF signal_desc = None
    THEN signal_list
    ELSE LET sig == filter_name(signal_list, signal_desc["name"])
         IN  IF sig = {}
             THEN Append(signal_list, signal_desc)
             ELSE [signal_list EXCEPT ![First(sig)] = Update(@, signal_desc)]

(* Mutant of port_description: the description is always overwritten. *)
port_description_always(old, description) == description

(* The port's description: only updated when the string is non-empty. *)
port_description(old, description) ==
    IF description # "" THEN description ELSE old

add_port_result(list, name, signal_desc, description, kwargs) ==
    LET p    == filter_name(list, name.chars)
        l1   == IF p = {} THEN Append(list, get_new_port(name.chars)) ELSE list
        i    == IF p = {} THEN Len(l1) ELSE First(p)
        p1   == Update(l1[i],
                  [description |-> port_description(l1[i]["description"], description)])
        p2   == Update(p1,
                  [signal_list |-> signal_list_update(p1["signal_list"], signal_desc)])
        p3   == Update(p2, kwargs)
    IN  [l1 EXCEPT ![i] = p3]

add_port(self, name, signal_desc, description, kwargs) ==
    IF ~isinstance_str(name)
    THEN Raise("TypeError")
    ELSE IF ~signal_desc_ok(signal_desc)
    THEN Raise("TypeError")
    ELSE /\ Return
         /\ warned' = ""
         /\ UNCHANGED <<generics, external_signals, implementation, interface_hash>>
         /\ ports' = [ports EXCEPT ![self] =
                 add_port_result(@, name, signal_desc, description, kwargs)]

(* ---------------------------------------------------------------------- *)
(* add_external_signal                                                     *)
(* ---------------------------------------------------------------------- *)

(* if isinstance(value, SignalType): value = value._init *)
signal_init(value) ==
    IF value.pytype = "SignalType" THEN value.init ELSE value

(* Mutant of direction_ok: the direction is not checked. *)
direction_any(direction) == TRUE

direction_ok(direction) == direction \in {"in", "out"}

add_external_signal_result(list, name, direction, value, description, kwargs) ==
    LET sig  == filter_name(list, name.chars)
        l1   == IF sig = {} THEN Append(list, get_new_signal(name.chars)) ELSE list
        i    == IF sig = {} THEN Len(l1) ELSE First(sig)
        s1   == Update(l1[i], [direction |-> direction, default_value |-> value,
                               description |-> description])
        s2   == Update(s1, kwargs)
    IN  [l1 EXCEPT ![i] = s2]

add_external_signal(self, name, direction, value, description, kwargs) ==
    IF ~isinstance_str(name)
    THEN Raise("TypeError")
    ELSE IF signal_init(value).pytype \notin {"bool", "int", "intbv"}
    THEN Raise("TypeError")
    ELSE IF ~direction_ok(direction)
    THEN Raise("ValueError")
    ELSE /\ Return
         /\ warned' = ""
         /\ UNCHANGED <<generics, ports, implementation, interface_hash>>
         /\ external_signals' = [external_signals EXCEPT ![self] =
                 add_external_signal_result(@, name, direction, signal_init(value),
                                            description, kwargs)]

(* ---------------------------------------------------------------------- *)
(* build_implementation                                                    *)
(* ---------------------------------------------------------------------- *)

(* What self.nocobject_ref looks like at the call: whether it has a        *)
(* "codemodel", what codemodel.generate_implementation is ("absent",       *)
(* "notcallable" or "callable") and what a call of it does: it returns a   *)
(* value (returns) or raises.                                              *)
Subject(codemodel, generate, raises, returns) ==
    [codemodel |-> codemodel, generate_implementation |-> generate,
     raises |-> raises, returns |-> returns]

build_implementation(self, nocobject_ref) ==
    IF ~nocobject_ref.codemodel
    THEN /\ warned' = ""
         /\ Return
         /\ UNCHANGED <<generics, ports, external_signals, implementation,
                        interface_hash>>
    ELSE IF nocobject_ref.generate_implementation = "absent"
    THEN /\ warned' = "Method 'generate_implementation()' not found."
         /\ implementation' = [implementation EXCEPT ![self] = ""]
         /\ Return
         /\ UNCHANGED <<generics, ports, external_signals, interface_hash>>
    ELSE IF nocobject_ref.generate_implementation = "notcallable"
    THEN /\ warned' = "Attribute 'generate_implementation()' not callable"
         /\ implementation' = [implementation EXCEPT ![self] = ""]
         /\ Return
         /\ UNCHANGED <<generics, ports, external_signals, interface_hash>>
    ELSE IF nocobject_ref.raises
    THEN Raise("Exception")
    ELSE /\ warned' = ""
         /\ implementation' = [implementation EXCEPT ![self] =
                 IF nocobject_ref.returns.pytype = "str"
                 THEN nocobject_ref.returns.repr ELSE @]
         /\ Return
         /\ UNCHANGED <<generics, ports, external_signals, interface_hash>>

(* ---------------------------------------------------------------------- *)
(* model_hash                                                              *)
(* ---------------------------------------------------------------------- *)

(* a < b for two strs: Python compares them character by character. *)
RECURSIVE str_lt(_, _)
str_lt(a, b) ==
    IF b = <<>> THEN FALSE
    ELSE IF a = <<>> THEN TRUE
    ELSE IF Head(a) # Head(b) THEN Head(a) < Head(b)
    ELSE str_lt(Tail(a), Tail(b))

(* One step of list.sort(key = lambda x: x[0]): x goes after the entries   *)
(* whose key is not greater (the sort is stable).                          *)
RECURSIVE sort_insert(_, _)
sort_insert(sorted, x) ==
    IF sorted = <<>> THEN <<x>>
    ELSE IF str_lt(x[1], Head(sorted)[1]) THEN <<x>> \o sorted
    ELSE <<Head(sorted)>> \o sort_insert(Tail(sorted), x)

(* Mutant of sort_by_name: the list is left in insertion order. *)
sort_none(list) == list

(* list.sort(key = lambda x: x[0]) *)
RECURSIVE sort_by_name(_)
sort_by_name(list) ==
    IF list = <<>> THEN <<>>
    ELSE sort_insert(sort_by_name(SubSeq(list, 1, Len(list) - 1)), list[Len(list)])

(* "%s%s" % (g[0], g[1]) *)
format_entry(g) == g[1] \o g[2]

(* hash_str += "%s%s" % (g[0], g[1]) for g in list *)
RECURSIVE hash_stream(_)
hash_stream(list) ==
    IF list = <<>> THEN <<>>
    ELSE format_entry(Head(list)) \o hash_stream(Tail(list))

hash_gen(gens) ==
    [i \in 1..Len(gens) |-> <<gens[i]["name"], gens[i]["type"]>>]

(* Mutant of hash_port: the number of signals (one digit) is made part of  *)
(* what the stream holds for a port.                                       *)
hash_port_count(prts) ==
    [i \in 1..Len(prts) |->
        <<prts[i]["name"],
          prts[i]["type"] \o <<48 + Len(prts[i]["signal_list"])>>,
          Len(prts[i]["signal_list"])>>]

hash_port(prts) ==
    [i \in 1..Len(prts) |->
        <<prts[i]["name"], prts[i]["type"], Len(prts[i]["signal_list"])>>]

hash_ext(exts) ==
    [i \in 1..Len(exts) |->
        <<exts[i]["name"], exts[i]["type"], exts[i]["direction"]>>]

(* The string model_hash computes from the three collections. *)
hash_of(gens, prts, exts) ==
    hash_stream(sort_by_name(hash_gen(gens)))
      \o hash_stream(sort_by_name(hash_port(prts)))
      \o hash_stream(sort_by_name(hash_ext(exts)))

(* The string model_hash returns for object self in the current state. *)
hash_str(self) == hash_of(generics[self], ports[self], external_signals[self])

(* Mutant of model_hash: the string is returned and not stored. *)
model_hash_unstored(self) ==
    /\ warned' = ""
    /\ Return
    /\ UNCHANGED <<generics, ports, external_signals, implementation,
                   interface_hash>>

model_hash(self) ==
    /\ interface_hash' = [interface_hash EXCEPT ![self] = hash_str(self)]
    /\ warned' = ""
    /\ Return
    /\ UNCHANGED <<generics, ports, external_signals, implementation>>

(* ---------------------------------------------------------------------- *)
(* Construction                                                            *)
(* ---------------------------------------------------------------------- *)

Init ==
    /\ generics = [o \in Objs |-> <<>>]
    /\ ports = [o \in Objs |-> <<>>]
    /\ external_signals = [o \in Objs |-> <<>>]
    /\ implementation = [o \in Objs |-> ""]
    /\ interface_hash = [o \in Objs |-> <<>>]
    /\ exc = "None"
    /\ warned = ""
    /\ ncalls = 0

(* ---------------------------------------------------------------------- *)
(* The calls of a run of Spec: one object, every argument of every method  *)
(* drawn from a small set that holds its valid and its invalid values.     *)
(* ---------------------------------------------------------------------- *)

(* name: "", "a" and the int 7. *)
NameArgs == {PyStr(<<>>), PyStr(<<97>>), PyIntName(<<55>>)}

(* value: an int, a str and a myhdl Signal whose _init is an int. *)
ValueArgs ==
    {PyVal("int", "1"), PyVal("str", "'x'"),
     PySignal("Signal(2)", PyVal("int", "2"))}

Descriptions == {"", "d"}

PortDescriptions == {"", "d", "e"}

DirectionArgs == {"in", "out", "IN"}

(* Optional keyword arguments: the type information that the extended     *)
(* classes fill in.                                                        *)
GenericKwargs ==
    {NoKwargs,
     [type |-> <<98>>, type_array |-> <<"0", "7">>,
      current_value |-> PyVal("int", "5")]}

PortKwargs == {NoKwargs, [type |-> <<98>>, nocport |-> "0"]}

ExtKwargs == {NoKwargs, [type |-> <<98>>, type_array |-> <<"0", "7">>]}

(* signal_desc: None; signal "a" of type "b", an input, made with          *)
(* get_new_signal; a dictionary that only holds the type "c" of signal     *)
(* "a"; signal "b" with the direction "IN"; a port dictionary; a           *)
(* dictionary without "class".                                             *)
SignalDescs ==
    {None,
     Update(empty_signal, [name |-> <<97>>, type |-> <<98>>, direction |-> "in"]),
     [class |-> "signal", name |-> <<97>>, type |-> <<99>>],
     Update(empty_signal, [name |-> <<98>>, direction |-> "IN"]),
     get_new_port(<<97>>),
     [name |-> <<97>>, direction |-> "in"]}

(* nocobject_ref at a call of build_implementation. *)
Subjects ==
    {Subject(FALSE, "absent", FALSE, PyVal("NoneType", "None")),
     Subject(TRUE, "absent", FALSE, PyVal("NoneType", "None")),
     Subject(TRUE, "notcallable", FALSE, PyVal("NoneType", "None")),
     Subject(TRUE, "callable", TRUE, PyVal("NoneType", "None")),
     Subject(TRUE, "callable", FALSE, PyVal("NoneType", "None")),
     Subject(TRUE, "callable", FALSE, PyVal("str", "begin end"))}

Next ==
    /\ ncalls < MaxCalls
    /\ \/ \E name \in NameArgs, value \in ValueArgs,
              description \in Descriptions, kwargs \in GenericKwargs :
              add_generic(1, name, value, description, kwargs)
       \/ \E name \in NameArgs, signal_desc \in SignalDescs,
              description \in PortDescriptions, kwargs \in PortKwargs :
              add_port(1, name, signal_desc, description, kwargs)
       \/ \E name \in NameArgs, direction \in DirectionArgs, value \in ValueArgs,
              description \in Descriptions, kwargs \in ExtKwargs :
              add_external_signal(1, name, direction, value, description, kwargs)
       \/ \E nocobject_ref \in Subjects : build_implementation(1, nocobject_ref)
       \/ model_hash(1)

Spec == Init /\ [][Next]_vars

(* ---------------------------------------------------------------------- *)
(* The calls of a run of SpecPair: two objects, each built by its own      *)
(* calls, whose model_hash strings are compared. Names "a" and "ab", types *)
(* "" and "b".                                                             *)
(* ---------------------------------------------------------------------- *)

PairNames == {PyStr(<<97>>), PyStr(<<97, 98>>)}

(* The arguments of a call, after name. *)
Args(value, description, kwargs) ==
    [value |-> value, description |-> description, kwargs |-> kwargs]

PortArgs(signal_desc, description, kwargs) ==
    [signal_desc |-> signal_desc, description |-> description, kwargs |-> kwargs]

ExtArgs(direction, value, description, kwargs) ==
    [direction |-> direction, value |-> value, description |-> description,
     kwargs |-> kwargs]

(* add_generic: the plain call, the call that sets the type, and the call  *)
(* that changes everything but the type.                                   *)
PairGenericArgs ==
    {Args(PyVal("int", "1"), "", NoKwargs),
     Args(PyVal("int", "1"), "", [type |-> <<98>>]),
     Args(PyVal("str", "'x'"), "d",
          [type_array |-> <<"0", "7">>, current_value |-> PyVal("int", "5")])}

(* add_port: the plain call and the call that adds a signal and a          *)
(* description.                                                            *)
PairPortArgs ==
    {PortArgs(None, "", NoKwargs),
     PortArgs(Update(empty_signal, [name |-> <<97>>, direction |-> "in"]), "d",
              [nocport |-> "0"])}

(* add_external_signal: both directions, and the call that changes         *)
(* everything but the type and the direction.                              *)
PairExtArgs ==
    {ExtArgs("in", PyVal("int", "1"), "", NoKwargs),
     ExtArgs("out", PyVal("int", "1"), "", NoKwargs),
     ExtArgs("in", PyVal("int", "2"), "d", [type_array |-> <<"0", "7">>])}

NextPair ==
    /\ ncalls < MaxPairCalls
    /\ \E self \in Objs, name \in PairNames :
       \/ \E a \in PairGenericArgs :
              add_generic(self, name, a.value, a.description, a.kwargs)
       \/ \E a \in PairPortArgs :
              add_port(self, name, a.signal_desc, a.description, a.kwargs)
       \/ \E a \in PairExtArgs :
              add_external_signal(self, name, a.direction, a.value, a.description,
                                  a.kwargs)

SpecPair == Init /\ [][NextPair]_vars

(* ---------------------------------------------------------------------- *)
(* The calls of a run of SpecHash: one object, built by the calls of       *)
(* SpecPair and by calls that fail, with build_implementation and          *)
(* model_hash called at any point in between.                              *)
(* ---------------------------------------------------------------------- *)

(* name: "a", "ab" and the int 7. *)
HashNames == PairNames \cup {PyIntName(<<55>>)}

NextHash ==
    /\ ncalls < MaxHashCalls
    /\ \/ \E name \in HashNames, a \in PairGenericArgs :
              add_generic(1, name, a.value, a.description, a.kwargs)
       \/ \E name \in HashNames, a \in PairPortArgs :
              add_port(1, name, a.signal_desc, a.description, a.kwargs)
       \/ \E name \in HashNames, a \in PairExtArgs :
              add_external_signal(1, name, a.direction, a.value, a.description,
                                  a.kwargs)
       \/ \E nocobject_ref \in Subjects : build_implementation(1, nocobject_ref)
       \/ model_hash(1)

SpecHash == Init /\ [][NextHash]_vars

(* ---------------------------------------------------------------------- *)
(* Properties                                                              *)
(* ---------------------------------------------------------------------- *)

(* No two entries of the list share a name. *)
UniqueNames(list) ==
    \A i, j \in 1..Len(list) : list[i]["name"] = list[j]["name"] => i = j

(* The collections of object 1 are as before the step. *)
CollectionsUnchanged ==
    /\ generics'[1] = generics[1]
    /\ ports'[1] = ports[1]
    /\ external_signals'[1] = external_signals[1]

(* C1: after any sequence of add_generic, add_port and add_external_signal *)
(* calls, successful or failing, no two generics share a name, no two      *)
(* ports share a name, no two external signals share a name, and within    *)
(* every port no two signals of its signal_list share a name.              *)
C1_UniqueNames ==
    /\ UniqueNames(generics[1])
    /\ UniqueNames(ports[1])
    /\ UniqueNames(external_signals[1])
    /\ \A i \in 1..Len(ports[1]) : UniqueNames(ports[1][i]["signal_list"])

(* C1 witness: one port that holds two signals, which takes two add_port   *)
(* calls with the same port name.                                          *)
C1_Witness ==
    /\ Len(ports[1]) = 1
    /\ Len(ports[1][1]["signal_list"]) = 2

(* The positions of the entries of the list that have the name. *)
WithName(list, name) == {i \in 1..Len(list) : list[i]["name"] = name}

(* The types of name and value that add_generic documents as valid. *)
ValidGenericArgs(name, value) ==
    /\ name.pytype = "str"
    /\ value.pytype \in {"bool", "int", "intbv", "str"}

(* The properties of the steps of a method have the form "the              *)
(* postcondition holds, or the step is not this call".                     *)

(* The step changes nothing but the generics. *)
OnlyGenericsChange ==
    UNCHANGED <<ports, external_signals, implementation, interface_hash>>

(* The step changes nothing but the ports. *)
OnlyPortsChange ==
    UNCHANGED <<generics, external_signals, implementation, interface_hash>>

(* The step changes nothing but the external signals. *)
OnlyExternalSignalsChange ==
    UNCHANGED <<generics, ports, implementation, interface_hash>>

(* C2: after add_generic(name, value, description, extra fields) with a    *)
(* valid name and value, the generic of that name has default_value and    *)
(* description as passed; when a generic of that name existed, the length  *)
(* of the list and the position of the record are unchanged, and when it   *)
(* did not, the length grows by exactly one.                               *)
C2_AddGenericUpdatesInPlace ==
    [][\/ ~OnlyGenericsChange
       \/ \A name \in NameArgs, value \in ValueArgs, description \in Descriptions :
             \/ ~ValidGenericArgs(name, value)
             \/ LET old == WithName(generics[1], name.chars)
                    new == WithName(generics'[1], name.chars)
                IN  /\ new # {}
                    /\ \A i \in new :
                          /\ generics'[1][i]["default_value"] = value
                          /\ generics'[1][i]["description"] = description
                    /\ old # {} => /\ Len(generics'[1]) = Len(generics[1])
                                   /\ new = old
                    /\ old = {} => Len(generics'[1]) = Len(generics[1]) + 1
             \/ \A kwargs \in GenericKwargs :
                   ~add_generic(1, name, value, description, kwargs)]_vars

(* C2 witness: after two calls the only generic holds the values of a call *)
(* with extra fields (type, type_array, current_value), a str value and a  *)
(* description.                                                            *)
C2_Witness ==
    /\ ncalls = 2
    /\ Len(generics[1]) = 1
    /\ Len(ports[1]) = 0
    /\ Len(external_signals[1]) = 0
    /\ generics[1][1]["default_value"] = PyVal("str", "'x'")
    /\ generics[1][1]["description"] = "d"
    /\ generics[1][1]["current_value"] = PyVal("int", "5")

(* The names and types of a list of generics or ports, entry by entry. *)
NameTypes(list) ==
    [i \in 1..Len(list) |-> <<list[i]["name"], list[i]["type"]>>]

(* The names, types and directions of the external signals. *)
NameTypeDirections(list) ==
    [i \in 1..Len(list) |->
        <<list[i]["name"], list[i]["type"], list[i]["direction"]>>]

(* The interface that the hash is said to depend on. *)
Shape(o) ==
    <<NameTypes(generics[o]), NameTypes(ports[o]),
      NameTypeDirections(external_signals[o])>>

(* The entries of a list without the given keys. *)
Without(list, keys) ==
    [i \in 1..Len(list) |-> [k \in (DOMAIN list[i]) \ keys |-> list[i][k]]]

(* Objects 1 and 2 are equal in everything but names, types and            *)
(* external-signal directions.                                             *)
OtherwiseEqual ==
    /\ Without(generics[1], {"name", "type"}) = Without(generics[2], {"name", "type"})
    /\ Without(ports[1], {"name", "type"}) = Without(ports[2], {"name", "type"})
    /\ Without(external_signals[1], {"name", "type", "direction"})
         = Without(external_signals[2], {"name", "type", "direction"})

(* C3: two models that differ in at least one name, type or                *)
(* external-signal direction, and are otherwise equal, get different       *)
(* model_hash strings.                                                     *)
C3_HashSensitive ==
    (OtherwiseEqual /\ Shape(1) # Shape(2)) => hash_str(1) # hash_str(2)

(* The entries of a list, as a set. *)
Entries(list) == {list[i] : i \in 1..Len(list)}

(* Objects 1 and 2 hold the same entries, in any order. *)
SameEntries ==
    /\ Len(generics[1]) = Len(generics[2])
    /\ Entries(generics[1]) = Entries(generics[2])
    /\ Len(ports[1]) = Len(ports[2])
    /\ Entries(ports[1]) = Entries(ports[2])
    /\ Len(external_signals[1]) = Len(external_signals[2])
    /\ Entries(external_signals[1]) = Entries(external_signals[2])

(* C4: model_hash is independent of insertion order: two models built from *)
(* the same add calls in different orders get the same model_hash string.  *)
C4_HashOrderIndependent ==
    SameEntries => hash_str(1) = hash_str(2)

(* C4 witness: both objects hold the same two generics, in different       *)
(* orders.                                                                 *)
C4_Witness ==
    /\ SameEntries
    /\ Len(generics[1]) = 2
    /\ generics[1] # generics[2]

Incapable(nocobject_ref) ==
    \/ ~nocobject_ref.codemodel
    \/ nocobject_ref.generate_implementation \in {"absent", "notcallable"}

(* C6: when the subject has no codemodel, or the codemodel has no          *)
(* generate_implementation, or that attribute is not callable,             *)
(* build_implementation does not raise, emits a warning and leaves the     *)
(* implementation text as it was before the call.                          *)
C6_BuildFailureKeepsImplementation ==
    [][\A nocobject_ref \in Subjects :
          (Incapable(nocobject_ref) /\ build_implementation(1, nocobject_ref))
          => /\ exc' = "None"
             /\ warned' # ""
             /\ implementation'[1] = implementation[1]]_vars

(* C7: add_port with an empty description never changes the description   *)
(* of an existing port, and add_port with a non-empty description always   *)
(* sets the port's description to that string.                             *)
C7_PortDescription ==
    [][\/ ~OnlyPortsChange
       \/ \A name \in NameArgs, description \in PortDescriptions :
             \/ /\ description = ""
                     => /\ Len(ports'[1]) >= Len(ports[1])
                        /\ \A i \in 1..Len(ports[1]) :
                              ports'[1][i]["description"] = ports[1][i]["description"]
                /\ (description # "" /\ exc' = "None")
                     => /\ WithName(ports'[1], name.chars) # {}
                        /\ \A i \in WithName(ports'[1], name.chars) :
                              ports'[1][i]["description"] = description
             \/ \A signal_desc \in SignalDescs, kwargs \in PortKwargs :
                   ~add_port(1, name, signal_desc, description, kwargs)]_vars

(* C7 witness: a port with a description and two signals, the result of    *)
(* two add_port calls with its name.                                       *)
C7_Witness ==
    /\ ncalls = 2
    /\ Len(ports[1]) = 1
    /\ ports[1][1]["description"] = "d"
    /\ Len(ports[1][1]["signal_list"]) = 2

(* The signal_list of the port of that name, empty when there is none. *)
SignalsOf(list, name) ==
    IF WithName(list, name) = {} THEN <<>>
    ELSE list[CHOOSE i \in WithName(list, name) : TRUE]["signal_list"]

(* The signal_list has the signal and had no signal of its name. *)
Appended(old, new, signal_desc) ==
    /\ WithName(old, signal_desc["name"]) = {}
    /\ Len(new) = Len(old) + 1
    /\ new[Len(new)] = signal_desc

(* The signal_list has as many signals as before, one of them of the name  *)
(* of the signal, of its type when it holds one.                           *)
Merged(old, new, signal_desc) ==
    /\ WithName(old, signal_desc["name"]) # {}
    /\ Len(new) = Len(old)
    /\ \A i \in WithName(new, signal_desc["name"]) :
          "type" \in DOMAIN signal_desc => new[i]["type"] = signal_desc["type"]

(* C8: add_port with a signal description whose name is in the port's      *)
(* signal_list leaves exactly one entry of that name, with the type of     *)
(* this call; a signal description whose name is not yet in the port is    *)
(* appended, growing the signal_list by exactly one.                       *)
C8_SignalMerge ==
    [][\/ ~OnlyPortsChange
       \/ exc' # "None"
       \/ \A name \in NameArgs, signal_desc \in SignalDescs \ {None} :
             \/ LET old == SignalsOf(ports[1], name.chars)
                    new == SignalsOf(ports'[1], name.chars)
                IN  /\ Cardinality(WithName(new, signal_desc["name"])) = 1
                    /\ \/ Merged(old, new, signal_desc)
                       \/ Appended(old, new, signal_desc)
             \/ \A description \in PortDescriptions, kwargs \in PortKwargs :
                   ~add_port(1, name, signal_desc, description, kwargs)]_vars

(* C8 witness: the port holds one signal "a" that has the direction of the *)
(* first call's description and the type "c" of the second call's.         *)
C8_Witness ==
    /\ Len(ports[1]) = 1
    /\ Len(ports[1][1]["signal_list"]) = 1
    /\ ports[1][1]["signal_list"][1]["name"] = <<97>>
    /\ ports[1][1]["signal_list"][1]["type"] = <<99>>
    /\ "direction" \in DOMAIN ports[1][1]["signal_list"][1]
    /\ ports[1][1]["signal_list"][1]["direction"] = "in"

(* name is a non-empty string. *)
NonEmptyString(name) == name.pytype = "str" /\ name.chars # <<>>

(* The step is a call of one of the add methods with that name. *)
AddCall(name) ==
    \/ \E value \in ValueArgs, description \in Descriptions,
          kwargs \in GenericKwargs :
          add_generic(1, name, value, description, kwargs)
    \/ \E signal_desc \in SignalDescs, description \in PortDescriptions,
          kwargs \in PortKwargs :
          add_port(1, name, signal_desc, description, kwargs)
    \/ \E direction \in DirectionArgs, value \in ValueArgs,
          description \in Descriptions, kwargs \in ExtKwargs :
          add_external_signal(1, name, direction, value, description, kwargs)

(* C9: add_generic, add_port and add_external_signal each fail with an     *)
(* error when name is not a non-empty string, and such a failing call      *)
(* leaves the generics, ports and external_signals unchanged.              *)
C9_RejectsEmptyOrNonStringName ==
    [][\/ (exc' # "None" /\ CollectionsUnchanged)
       \/ \A name \in {n \in NameArgs : ~NonEmptyString(n)} : ~AddCall(name)]_vars

(* The step is a call of one of the add methods with the name "" and       *)
(* arguments that are valid.                                               *)
ValidAddCallWithEmptyName ==
    \/ /\ OnlyGenericsChange
       /\ \E value \in {v \in ValueArgs : ValidGenericArgs(PyStr(<<>>), v)},
             description \in Descriptions, kwargs \in GenericKwargs :
             add_generic(1, PyStr(<<>>), value, description, kwargs)
    \/ /\ OnlyPortsChange
       /\ \E description \in PortDescriptions, kwargs \in PortKwargs :
             add_port(1, PyStr(<<>>), None, description, kwargs)
    \/ /\ OnlyExternalSignalsChange
       /\ \E direction \in {"in", "out"}, description \in Descriptions,
             kwargs \in ExtKwargs :
             add_external_signal(1, PyStr(<<>>), direction, PyVal("int", "1"),
                                 description, kwargs)

(* An entry named "" is stored. *)
EmptyNameStored ==
    \/ WithName(generics'[1], <<>>) # {}
    \/ WithName(ports'[1], <<>>) # {}
    \/ WithName(external_signals'[1], <<>>) # {}

(* C9, amended: add_generic, add_port and add_external_signal each fail    *)
(* with a TypeError when name is not a string, and such a failing call     *)
(* leaves the generics, ports and external_signals unchanged; the empty    *)
(* string is a name like any other: a call with valid arguments and the    *)
(* name "" returns normally and the entry named "" is stored.              *)
C9_RejectsNonStringName ==
    [][/\ \/ (exc' = "TypeError" /\ CollectionsUnchanged)
          \/ \A name \in {n \in NameArgs : n.pytype # "str"} : ~AddCall(name)
       /\ \/ (exc' = "None" /\ EmptyNameStored)
          \/ ~ValidAddCallWithEmptyName]_vars

(* C9 witness: a generic named "" is stored and the last call raised a     *)
(* TypeError.                                                              *)
C9_Witness ==
    /\ ncalls = 2
    /\ exc = "TypeError"
    /\ Len(generics[1]) = 1
    /\ generics[1][1]["name"] = <<>>

(* The signal has a direction, "in" or "out". *)
Directed(signal) ==
    /\ "direction" \in DOMAIN signal
    /\ signal["direction"] \in {"in", "out"}

(* C10: every signal the model holds, each entry of external_signals and   *)
(* each entry of every port's signal_list, has direction "in" or "out".    *)
C10_AllSignalsDirected ==
    /\ \A i \in 1..Len(external_signals[1]) : Directed(external_signals[1][i])
    /\ \A i \in 1..Len(ports[1]) :
          \A j \in 1..Len(ports[1][i]["signal_list"]) :
             Directed(ports[1][i]["signal_list"][j])

(* C10, amended: every entry of external_signals has direction "in" or     *)
(* "out", and add_external_signal with any other direction (such as "IN")  *)
(* is rejected with an error and stores nothing; add_port does not check   *)
(* the direction of signal_desc.                                           *)
C10_ExternalSignalsDirected ==
    [][/\ \A i \in 1..Len(external_signals'[1]) :
             Directed(external_signals'[1][i])
       /\ \/ (exc' # "None" /\ CollectionsUnchanged)
          \/ \A name \in NameArgs, direction \in DirectionArgs \ {"in", "out"},
                value \in ValueArgs, description \in Descriptions,
                kwargs \in ExtKwargs :
                ~add_external_signal(1, name, direction, value, description,
                                     kwargs)]_vars

(* C10 witness: an external signal with direction "out" is stored and the  *)
(* last call was rejected with a ValueError.                               *)
C10_Witness ==
    /\ exc = "ValueError"
    /\ Len(external_signals[1]) = 1
    /\ external_signals[1][1]["direction"] = "out"

(* The step is a call in a run of SpecHash of add_generic, add_port,       *)
(* add_external_signal or build_implementation, successful or failing.     *)
OtherCall ==
    \/ \E name \in HashNames, a \in PairGenericArgs :
          add_generic(1, name, a.value, a.description, a.kwargs)
    \/ \E name \in HashNames, a \in PairPortArgs :
          add_port(1, name, a.signal_desc, a.description, a.kwargs)
    \/ \E name \in HashNames, a \in PairExtArgs :
          add_external_signal(1, name, a.direction, a.value, a.description,
                              a.kwargs)
    \/ \E nocobject_ref \in Subjects : build_implementation(1, nocobject_ref)

(* C11: interface_hash is written only by model_hash: a model_hash call    *)
(* stores in interface_hash the string it returns, the hash of the         *)
(* collections at the call, and add_generic, add_port, add_external_signal *)
(* and build_implementation leave interface_hash as it was; so             *)
(* interface_hash is always the initial "" or the result of the most       *)
(* recent model_hash call.                                                 *)
C11_HashWrittenOnlyByModelHash ==
    [][/\ \/ interface_hash'[1] = hash_of(generics[1], ports[1],
                                          external_signals[1])
          \/ ~model_hash(1)
       /\ \/ interface_hash' = interface_hash
          \/ ~OtherCall]_vars

(* C11 witness: interface_hash holds the result of a model_hash call, "a", *)
(* and is not the hash of the model any more, "aab", after an add call     *)
(* that followed it.                                                       *)
C11_Witness ==
    /\ interface_hash[1] = <<97>>
    /\ hash_str(1) = <<97, 97, 98>>
    /\ Len(generics[1]) = 2

====
